---- MODULE Spec2Model ----
(***************************************************************************)
(* Model of the three-stage idea pipeline of python_backend:               *)
(*   services/database/db_manager.py      the status store                 *)
(*   services/pipeline/orchestrator.py    run_full_pipeline, extraction    *)
(*   services/pipeline/classification_pipeline.py, evaluation_pipeline.py  *)
(*   services/evaluation_service.py       start_pipeline, status snapshot  *)
(*                                                                         *)
(* One orchestrator call is in progress at a time.  Its coordinating       *)
(* thread selects the items, submits one unit of work per item to a pool   *)
(* of batch_size workers and collects the finished units; the workers      *)
(* interleave freely.  Start requests of the service interleave with the   *)
(* orchestrator and with each other at the granularity of the steps of     *)
(* start_pipeline (the test of the running flag and its assignment have no *)
(* suspension point between them and are one step).                        *)
(*                                                                         *)
(* Three parts of the stage runners are also taken alone, with the detail  *)
(* the pipeline leaves out: the as_completed loop and the progress it      *)
(* reports (SpecProgress), _classify_idea with the classifier, its retries *)
(* and its sleeps (SpecClassify), and _evaluate_idea with the evaluator of *)
(* services/evaluation/idea_evaluator.py (SpecEvaluate).                   *)
(***************************************************************************)
EXTENDS Integers, FiniteSets, Sequences, TLC

\* ---------------------------------------------------------------- bounds
NumIdeas == 2
MaxRequests == 2
MaxBatch == 2
MaxTotal == 8
NumConfigs == 2

Ideas == 1..NumIdeas
Requests == 1..MaxRequests
ConfigIds == 1..NumConfigs

\* ------------------------------------------------------------- constants
\* max_retries = 3
max_retries == 3

Stages == {"extraction", "classification", "evaluation"}
RubricNames == {"A", "B"}

\* keyword parameters PipelineOrchestrator.__init__ declares, and the
\* keywords start_pipeline passes to it
OrchestratorInitParams ==
    {"db_manager", "file_extractor", "batch_size", "max_workers", "progress_callback"}
OrchestratorCallKwargs ==
    {"db_manager", "file_extractor", "batch_size", "max_workers", "progress_callback",
     "provider", "model_name", "model_settings"}

\* keyword parameters IdeaEvaluator.__init__ declares, and the keywords
\* EvaluationPipeline.run passes to it
IdeaEvaluatorInitParams == {"rubrics", "api_key"}
IdeaEvaluatorCallKwargs == {"rubrics", "provider", "model_name", "model_settings"}

\* a call with a keyword the callee does not declare raises TypeError
CallAccepted(kwargs, params) == kwargs \subseteq params

ZeroStats == [processed |-> 0, succeeded |-> 0, failed |-> 0]
NoStats == [processed |-> -1, succeeded |-> -1, failed |-> -1]

VARIABLES
    store,       \* hackathon_ideas: item -> its three status columns
    rubrics,     \* rubrics table: names of the active rubrics
    status,      \* EvaluationService.status
    req,         \* start requests: position in start_pipeline and result
    entry,       \* orchestrator entry point in progress, "none" if none
    caller,      \* 0 for a direct caller, else the start request
    batch_size,  \* self.batch_size of the orchestrator in use
    cur,         \* stage runner in progress
    spc,         \* position in the stage runner
    ideas,       \* the stage runner's selection
    unit,        \* stage -> item -> position of the unit of work
    res,         \* stage -> item -> outcome of the unit's future
    why,         \* stage -> item -> exception the unit's except clause caught
    attempt,     \* item -> loop index of _classify_idea while the unit runs
    collected,   \* items whose future the as_completed loop has handled
    succeeded,   \* stage runner's local counter
    failed,      \* stage runner's local counter
    stats,       \* run_full_pipeline's local stats dictionary
    started,     \* stage runners entered by the call in progress
    evalRubrics, \* <<rubrics>> once EvaluationPipeline.run has read them
    stageErr,    \* stage runner an exception escaped from, "none" if none
    ret,         \* what the last orchestrator call gave its caller
    lastEvent,   \* last progress event delivered to a direct caller
    lp,          \* the as_completed loop of a stage runner, taken alone
    xw,          \* _extract_idea on one item, taken alone
    cw,          \* _classify_idea on one item, taken alone
    ew,          \* _evaluate_idea on one item, taken alone
    mc           \* the rows of model_provider_configs, taken alone

vars == <<store, rubrics, status, req, entry, caller, batch_size, cur, spc, ideas,
          unit, res, why, attempt, collected, succeeded, failed, stats, started,
          evalRubrics, stageErr, ret, lastEvent, lp, xw, cw, ew, mc>>

\* the pipeline and the service
pipeVars == <<store, rubrics, status, req, entry, caller, batch_size, cur, spc, ideas,
              unit, res, why, attempt, collected, succeeded, failed, stats, started,
              evalRubrics, stageErr, ret, lastEvent>>
\* the loop and the three workers taken alone
detailVars == <<lp, xw, cw, ew, mc>>

poolVars == <<unit, res, why, attempt, collected, succeeded, failed>>
\* what the end of a stage runner changes
ctlVars == <<status, req, entry, caller, cur, spc, stats, started, ret, lastEvent>>

\* ------------------------------------------------------------ the store
StatusColumnOfUpstream(stage) ==
    CASE stage = "extraction" -> "extraction_status"
      [] stage = "classification" -> "extraction_status"
      [] stage = "evaluation" -> "classification_status"

\* the status column a stage runner and its workers write
StatusColumn(stage) ==
    CASE stage = "extraction" -> "extraction_status"
      [] stage = "classification" -> "classification_status"
      [] stage = "evaluation" -> "evaluation_status"

get_ideas_for_extraction_again(db) ==
    {i \in DOMAIN db : db[i].extraction_status \in {"unset", "pending", "completed"}}

get_ideas_for_extraction(db) ==
    {i \in DOMAIN db : db[i].extraction_status \in {"unset", "pending"}}

get_ideas_for_classification_unfiltered(db) ==
    {i \in DOMAIN db : db[i].classification_status \in {"unset", "pending", "failed"}}

get_ideas_for_classification(db) ==
    {i \in DOMAIN db :
        /\ db[i].extraction_status = "completed"
        /\ db[i].classification_status \in {"unset", "pending", "failed"}}

get_ideas_for_evaluation(db) ==
    {i \in DOMAIN db :
        /\ db[i].classification_status = "completed"
        /\ db[i].evaluation_status \in {"unset", "pending", "failed"}}

SelectForOwnStatus(stage, db) ==
    {i \in DOMAIN db : db[i][StatusColumn(stage)] \in {"unset", "pending", "failed"}}

\* the selection query of each stage runner
SelectFor(stage, db) ==
    CASE stage = "extraction" -> get_ideas_for_extraction(db)
      [] stage = "classification" -> get_ideas_for_classification(db)
      [] stage = "evaluation" -> get_ideas_for_evaluation(db)

update_status_all_columns(db, i, stage, value) ==
    [db EXCEPT ![i] =
        [c \in DOMAIN db[i] |->
            IF c = StatusColumn(stage) THEN value
            ELSE IF c \in {"extraction_status", "classification_status",
                           "evaluation_status"} THEN "unset"
            ELSE db[i][c]]]

\* update_extraction_status / update_classification / update_evaluation /
\* update_status: one UPDATE statement setting the stage's status column
update_status(db, i, stage, value) ==
    [db EXCEPT ![i] = [@ EXCEPT ![StatusColumn(stage)] = value]]


\* ------------------------------------------------------- initial state
ZeroAll == [s \in Stages |-> ZeroStats]
NoneAll == [s \in Stages |-> NoStats]

InitPipeline ==
    /\ \E k \in 0..NumIdeas :
          store = [i \in Ideas |->
                     [extraction_status |-> IF i <= k THEN "pending" ELSE "unset",
                      classification_status |-> "unset",
                      evaluation_status |-> "unset"]]
    /\ rubrics \in {{}, RubricNames}
    /\ status = [running |-> FALSE, stage |-> "None", progress |-> 0,
                 total |-> 0, completed |-> 0, failed |-> 0]
    /\ req = [r \in Requests |->
                [pc |-> "idle", result |-> "none", error |-> "none", stats |-> NoneAll]]
    /\ entry = "none"
    /\ caller = 0
    /\ batch_size = 1
    /\ cur = "none"
    /\ spc = "idle"
    /\ ideas = {}
    /\ unit = [s \in Stages |-> [i \in Ideas |-> "none"]]
    /\ res = [s \in Stages |-> [i \in Ideas |-> "none"]]
    /\ why = [s \in Stages |-> [i \in Ideas |-> "none"]]
    /\ attempt = [i \in Ideas |-> 0]
    /\ collected = {}
    /\ succeeded = 0
    /\ failed = 0
    /\ stats = ZeroAll
    /\ started = {}
    /\ evalRubrics = <<>>
    /\ stageErr = "none"
    /\ ret = [kind |-> "none", entry |-> "none", stage |-> "none", stats |-> NoneAll]
    /\ lastEvent = [stage |-> "None", progress |-> 0]

\* the loop and the workers taken alone, when they are not being looked at
NoLoop == [total |-> 0, handled |-> 0, i |-> 0, succeeded |-> 0, failed |-> 0,
           progress |-> -1, calls |-> 0]
NoClassification ==
    [primary_theme |-> "unset", secondary_themes |-> <<>>, industry |-> "unset",
     technologies |-> <<>>]
NoExtractWorker ==
    [pc |-> "none", result |-> [status |-> "none"], calls |-> 0,
     row |-> [extraction_status |-> "unset", classification_status |-> "unset",
              evaluation_status |-> "unset", extracted_files_content |-> "unset",
              content_type |-> "unset"],
     res |-> "none", succeeded |-> 0, failed |-> 0]
NoClassifyWorker ==
    [pc |-> "none", attempt |-> 0, tries |-> <<>>, waits |-> <<>>,
     row |-> [extraction_status |-> "unset", classification_status |-> "unset",
              evaluation_status |-> "unset", classification |-> NoClassification],
     res |-> "none", succeeded |-> 0, failed |-> 0]
NoEvaluation ==
    [scores |-> [r \in RubricNames |-> -1], key_strengths |-> <<>>, key_concerns |-> <<>>,
     weighted_total |-> [num |-> -1, den |-> 1], investment_recommendation |-> "unset"]
NoEvaluateWorker ==
    [pc |-> "none", rubrics |-> [r \in RubricNames |-> 0],
     reply |-> [success |-> FALSE, error |-> {}], calls |-> 0,
     row |-> [extraction_status |-> "unset", classification_status |-> "unset",
              evaluation_status |-> "unset", evaluation |-> NoEvaluation],
     res |-> "none", succeeded |-> 0, failed |-> 0]

\* no row of model_provider_configs with this id
NoConfig == [exists |-> FALSE, status |-> "none", is_active |-> FALSE, purpose |-> "none"]

\* model_provider_configs before the first configuration is created
NoConfigs == [c \in ConfigIds |-> NoConfig]

Init ==
    /\ InitPipeline
    /\ lp = NoLoop
    /\ xw = NoExtractWorker
    /\ cw = NoClassifyWorker
    /\ ew = NoEvaluateWorker
    /\ mc = NoConfigs

\* the pipeline at rest over an empty table
InitAtRest ==
    /\ InitPipeline
    /\ rubrics = {}
    /\ \A i \in Ideas : store[i].extraction_status = "unset"

\* ------------------------------------------------- orchestrator helpers
Max3(a, b, c) ==
    LET m == IF a >= b THEN a ELSE b IN IF m >= c THEN m ELSE c

NextStage(stage) == IF stage = "extraction" THEN "classification" ELSE "evaluation"

\* EvaluationPipeline.run reads the rubrics before it selects; the other
\* two stage runners start with their selection query
FirstPc(stage) == IF stage = "evaluation" THEN "rubrics" ELSE "select"

ServiceProgressCounting(st, stage, progress) ==
    [st EXCEPT !.stage = stage, !.progress = progress, !.completed = progress]

\* EvaluationService._update_progress applied to a status dictionary
ServiceProgress(st, stage, progress) ==
    [st EXCEPT !.stage = stage, !.progress = progress]

\* PipelineOrchestrator._update_progress: the callback of a direct caller
\* records the event, the callback of the service updates its status
NotifyEvent(stage, progress) ==
    IF caller = 0 THEN [stage |-> stage, progress |-> progress] ELSE lastEvent

NotifyStatus(stage, progress) ==
    IF caller = 0 THEN status ELSE ServiceProgress(status, stage, progress)

\* start_pipeline after run_full_pipeline returned st
ServiceCompleted(st, s) ==
    [st EXCEPT !.running = FALSE,
               !.stage = "completed",
               !.completed = Max3(s["extraction"].succeeded,
                                  s["classification"].succeeded,
                                  s["evaluation"].succeeded),
               !.failed = Max3(s["extraction"].failed,
                               s["classification"].failed,
                               s["evaluation"].failed)]

ServiceFailedStillRunning(st) == [st EXCEPT !.stage = "failed"]

\* the except clause of start_pipeline
ServiceFailed(st) == [st EXCEPT !.running = FALSE, !.stage = "failed"]

\* the orchestrator call ends: its caller gets the value or the exception
EndCall(kind, value, st) ==
    /\ entry' = "none"
    /\ cur' = "none"
    /\ spc' = "idle"
    /\ caller' = 0
    /\ ret' = [kind |-> kind, entry |-> entry, stage |-> cur, stats |-> value]
    /\ IF caller = 0
         THEN /\ status' = st
              /\ req' = req
         ELSE IF kind = "returned"
           THEN /\ status' = ServiceCompleted(st, value)
                /\ req' = [req EXCEPT ![caller] = [pc |-> "done", result |-> "success",
                                                    error |-> "none", stats |-> value]]
           ELSE /\ status' = ServiceFailed(st)
                /\ req' = [req EXCEPT ![caller] = [pc |-> "done", result |-> "failed",
                                                    error |-> "stage", stats |-> NoneAll]]

\* the stage runner in progress returns st
StageReturns(st) ==
    LET newstats == [stats EXCEPT ![cur] = st] IN
    /\ stats' = newstats
    /\ IF entry = "full" /\ cur # "evaluation"
         THEN /\ cur' = NextStage(cur)
              /\ spc' = FirstPc(NextStage(cur))
              /\ started' = started \cup {NextStage(cur)}
              /\ lastEvent' = NotifyEvent(NextStage(cur), 0)
              /\ status' = NotifyStatus(NextStage(cur), 0)
              /\ UNCHANGED <<entry, caller, ret, req>>
         ELSE IF entry = "full"
           THEN /\ lastEvent' = NotifyEvent("complete", 100)
                /\ started' = started
                /\ EndCall("returned", newstats, NotifyStatus("complete", 100))
           ELSE /\ lastEvent' = lastEvent
                /\ started' = started
                /\ EndCall("returned", newstats, status)

\* an exception escapes the stage runner in progress: run_full_pipeline
\* reports the error event and re-raises, its stats dictionary is dropped
StageRaisesSwallowed == StageReturns(ZeroStats)

StageRaises ==
    /\ stats' = stats
    /\ started' = started
    /\ IF entry = "full"
         THEN /\ lastEvent' = NotifyEvent("error", 0)
              /\ EndCall("raised", NoneAll, NotifyStatus("error", 0))
         ELSE /\ lastEvent' = lastEvent
              /\ EndCall("raised", NoneAll, status)

\* state of a call that starts at entry point e on behalf of c
BeginCall(e, c, b) ==
    LET first == IF e = "full" THEN "extraction" ELSE e IN
    /\ entry' = e
    /\ caller' = c
    /\ batch_size' = b
    /\ cur' = first
    /\ spc' = FirstPc(first)
    /\ ideas' = {}
    /\ unit' = [s \in Stages |-> [i \in Ideas |-> "none"]]
    /\ res' = [s \in Stages |-> [i \in Ideas |-> "none"]]
    /\ why' = [s \in Stages |-> [i \in Ideas |-> "none"]]
    /\ attempt' = [i \in Ideas |-> 0]
    /\ collected' = {}
    /\ succeeded' = 0
    /\ failed' = 0
    /\ stats' = ZeroAll
    /\ started' = {first}
    /\ evalRubrics' = <<>>
    /\ stageErr' = "none"
    /\ ret' = [kind |-> "none", entry |-> "none", stage |-> "none", stats |-> NoneAll]
    /\ lastEvent' = IF e = "full" /\ c = 0
                      THEN [stage |-> "extraction", progress |-> 0]
                      ELSE [stage |-> "None", progress |-> 0]

\* ------------------------------------------------------------- actions
\* a direct caller constructs an orchestrator with the parameters it
\* declares and calls run_full_pipeline or one of the stage entry points
CallOrchestrator(e, b) ==
    /\ entry = "none"
    /\ BeginCall(e, 0, b)
    /\ UNCHANGED <<store, rubrics, status, req>>
    /\ UNCHANGED detailVars

NoRubricsIgnored(rs) == FALSE

\* if not rubrics
NoRubrics(rs) == rs = {}

\* EvaluationPipeline.run, lines 54-59
GetActiveRubrics(ok) ==
    /\ spc = "rubrics"
    /\ IF ~ok
         THEN /\ StageRaises
              /\ stageErr' = cur
              /\ UNCHANGED evalRubrics
         ELSE /\ evalRubrics' = <<rubrics>>
              /\ UNCHANGED stageErr
              /\ IF NoRubrics(rubrics)
                   THEN StageReturns(ZeroStats)
                   ELSE /\ spc' = "evaluator"
                        /\ UNCHANGED <<status, req, entry, caller, cur, stats, started,
                                       ret, lastEvent>>
    /\ UNCHANGED <<store, rubrics, batch_size, ideas>>
    /\ UNCHANGED poolVars
    /\ UNCHANGED detailVars

\* EvaluationPipeline.run, lines 63-69
ConstructEvaluator ==
    /\ spc = "evaluator"
    /\ IF CallAccepted(IdeaEvaluatorCallKwargs, IdeaEvaluatorInitParams)
         THEN /\ spc' = "select"
              /\ UNCHANGED <<status, req, entry, caller, cur, stats, started, ret,
                             lastEvent, stageErr>>
         ELSE /\ StageRaises
              /\ stageErr' = cur
    /\ UNCHANGED <<store, rubrics, batch_size, ideas, evalRubrics>>
    /\ UNCHANGED poolVars
    /\ UNCHANGED detailVars

\* the selection query of the stage runner and the submission of one
\* future per selected item
SelectIdeas(ok) ==
    /\ spc = "select"
    /\ IF ~ok
         THEN /\ StageRaises
              /\ stageErr' = cur
              /\ UNCHANGED ideas
              /\ UNCHANGED poolVars
         ELSE LET sel == SelectFor(cur, store) IN
              /\ ideas' = sel
              /\ UNCHANGED stageErr
              /\ collected' = {}
              /\ succeeded' = 0
              /\ failed' = 0
              /\ IF sel = {}
                   THEN /\ StageReturns(ZeroStats)
                        /\ UNCHANGED <<unit, res, why, attempt>>
                   ELSE /\ spc' = "pool"
                        /\ unit' = [unit EXCEPT ![cur] =
                                      [i \in Ideas |-> IF i \in sel THEN "queued" ELSE "none"]]
                        /\ res' = [res EXCEPT ![cur] = [i \in Ideas |-> "none"]]
                        /\ why' = [why EXCEPT ![cur] = [i \in Ideas |-> "none"]]
                        /\ attempt' = [i \in Ideas |-> 0]
                        /\ UNCHANGED <<status, req, entry, caller, cur, stats, started,
                                       ret, lastEvent>>
    /\ UNCHANGED <<store, rubrics, batch_size, evalRubrics>>
    /\ UNCHANGED detailVars

\* units of work of stage s that occupy a worker of the pool
Active(s) == {i \in Ideas : unit[s][i] = "call"}

RunnableFromStore(s, i) ==
    \/ unit[s][i] = "queued"
    \/ s = cur /\ spc = "pool" /\ unit[s][i] = "none" /\ i \in SelectFor(s, store)

\* executor.submit(...) for idea in ideas: the units of work of a run are
\* the futures submitted for the items of its selection
Runnable(s, i) == unit[s][i] = "queued"

WorkerFreeAlways(s) == TRUE

\* ThreadPoolExecutor(max_workers=self.batch_size): the pool runs a
\* submitted unit of work only on one of its batch_size threads
WorkerFree(s) == Cardinality(Active(s)) < batch_size

\* a free worker takes a submitted unit of work
WorkerStart(s, i) ==
    /\ Runnable(s, i)
    /\ WorkerFree(s)
    /\ unit' = [unit EXCEPT ![s][i] = "call"]
    /\ UNCHANGED <<store, rubrics, batch_size, ideas, evalRubrics, stageErr>>
    /\ UNCHANGED <<res, why, attempt, collected, succeeded, failed>>
    /\ UNCHANGED ctlVars
    /\ UNCHANGED detailVars

RetriesOnceMore(s, cause, att) ==
    /\ s = "classification"
    /\ cause = "ratelimit"
    /\ att < max_retries

\* _classify_idea, lines 124-130: only the classification worker retries,
\* on an exception whose text carries a rate-limit marker, while attempts
\* remain
Retries(s, cause, att) ==
    /\ s = "classification"
    /\ cause = "ratelimit"
    /\ att < max_retries - 1

NextAttemptWrapped(att) == (att + 1) % (max_retries - 1)

\* for attempt in range(max_retries): the loop index of the next iteration
NextAttempt(att) == att + 1

\* the status the except clause of a worker writes
FailedStatus == "failed"

\* the exception the except clause of the worker catches: the one the
\* transform raised, else the one the store update raised, else none
Caught(outcome, writeOk) ==
    IF outcome # "ok" THEN outcome ELSE IF writeOk THEN "none" ELSE "store"

\* one pass of the worker over its item (_extract_idea, _evaluate_idea, one
\* iteration of the loop of _classify_idea).  The transform
\* (process_idea_files, classify_idea, evaluate_idea) returns or raises:
\* outcome "ratelimit" is an exception whose text carries a rate-limit
\* marker, "error" any other exception.  After the transform the store
\* update records the result and sets the stage status to completed
\* (writeOk: the update does not raise).  The except clause sleeps and
\* retries, or marks the item failed and returns success False (markOk:
\* that update does not raise; when it does, the exception is the future's
\* result).
RunUnit(s, i, outcome, writeOk, markOk) ==
    LET cause == Caught(outcome, writeOk) IN
    /\ unit[s][i] = "call"
    /\ IF cause = "none"
         THEN /\ store' = update_status(store, i, s, "completed")
              /\ unit' = [unit EXCEPT ![s][i] = "done"]
              /\ res' = [res EXCEPT ![s][i] = "ok"]
              /\ attempt' = [attempt EXCEPT ![i] = 0]
              /\ UNCHANGED why
         ELSE IF Retries(s, cause, attempt[i])
           THEN /\ attempt' = [attempt EXCEPT ![i] = NextAttempt(@)]
                /\ UNCHANGED <<store, unit, res, why>>
           ELSE /\ unit' = [unit EXCEPT ![s][i] = "done"]
                /\ why' = [why EXCEPT ![s][i] = cause]
                /\ IF markOk
                     THEN /\ store' = update_status(store, i, s, FailedStatus)
                          /\ res' = [res EXCEPT ![s][i] = "fail"]
                     ELSE /\ res' = [res EXCEPT ![s][i] = "exc"]
                          /\ UNCHANGED store
                /\ attempt' = [attempt EXCEPT ![i] = 0]
    /\ UNCHANGED <<rubrics, batch_size, ideas, evalRubrics, stageErr>>
    /\ UNCHANGED <<collected, succeeded, failed>>
    /\ UNCHANGED ctlVars
    /\ UNCHANGED detailVars

ProgressRounded(i, total) == (200 * i + total) \div (2 * total)

\* int((i / total) * 100): the quotient is truncated; for total < 50 the
\* truncated floating-point product is the integer quotient
Progress(i, total) == (100 * i) \div total

SucceededAfterUnchecked(n, result) == IF result # "exc" THEN n + 1 ELSE n

\* the try block of the loop body: result['success'] counts as succeeded
SucceededAfter(n, result) == IF result = "ok" THEN n + 1 ELSE n

FailedAfterNoExcept(n, result) == IF result = "fail" THEN n + 1 ELSE n

\* a result without success, and an exception raised by future.result(),
\* count as failed
FailedAfter(n, result) == IF result = "ok" THEN n ELSE n + 1

FutureDoneOrRunning(s, i) == unit[s][i] \in {"done", "call"}

\* as_completed(futures) yields a future once its unit of work has ended
FutureDone(s, i) == unit[s][i] = "done"

\* one iteration of the as_completed loop of the coordinating thread
Collect(i) ==
    /\ spc = "pool"
    /\ i \in ideas \ collected
    /\ FutureDone(cur, i)
    /\ collected' = collected \cup {i}
    /\ succeeded' = SucceededAfter(succeeded, res[cur][i])
    /\ failed' = FailedAfter(failed, res[cur][i])
    /\ lastEvent' = NotifyEvent(cur, Progress(Cardinality(collected'), Cardinality(ideas)))
    /\ status' = NotifyStatus(cur, Progress(Cardinality(collected'), Cardinality(ideas)))
    /\ UNCHANGED <<store, rubrics, batch_size, ideas, evalRubrics, stageErr>>
    /\ UNCHANGED <<unit, res, why, attempt>>
    /\ UNCHANGED <<req, entry, caller, cur, spc, stats, started, ret>>
    /\ UNCHANGED detailVars

LoopDoneEarly(sel, col) == col # {}

\* the as_completed loop ends after the last submitted future
LoopDone(sel, col) == col = sel

\* the with block of the executor is left and the stage runner returns; its
\* locals and the futures it collected go out of scope
StageFinish ==
    /\ spc = "pool"
    /\ LoopDone(ideas, collected)
    /\ StageReturns([processed |-> Cardinality(ideas),
                     succeeded |-> succeeded, failed |-> failed])
    /\ ideas' = {}
    /\ collected' = {}
    /\ succeeded' = 0
    /\ failed' = 0
    /\ unit' = [unit EXCEPT ![cur] =
                  [i \in Ideas |-> IF i \in collected THEN "none" ELSE @[i]]]
    /\ res' = [res EXCEPT ![cur] =
                 [i \in Ideas |-> IF i \in collected THEN "none" ELSE @[i]]]
    /\ why' = [why EXCEPT ![cur] =
                 [i \in Ideas |-> IF i \in collected THEN "none" ELSE @[i]]]
    /\ attempt' = [i \in Ideas |-> IF i \in collected THEN 0 ELSE attempt[i]]
    /\ UNCHANGED <<store, rubrics, batch_size, evalRubrics, stageErr>>
    /\ UNCHANGED detailVars

\* DatabaseManager.insert_idea by another client of the store while a stage
\* runner is in its pool: INSERT ... ON CONFLICT (idea_id) DO UPDATE SET
\* ... extraction_status = EXCLUDED.extraction_status, on an item the run
\* did not select and that the insert makes eligible for the stage
insert_idea(i, extraction_status) ==
    /\ spc = "pool"
    /\ i \notin ideas
    /\ i \notin SelectFor(cur, store)
    /\ store' = [store EXCEPT ![i].extraction_status = extraction_status]
    /\ i \in SelectFor(cur, store')
    /\ UNCHANGED <<rubrics, batch_size, ideas, evalRubrics, stageErr>>
    /\ UNCHANGED poolVars
    /\ UNCHANGED ctlVars
    /\ UNCHANGED detailVars

\* ---------------------------------------------------- the service layer
evaluation_batch_size == 1

AlreadyRunningIgnored(st) == FALSE

\* if self.status['running']
AlreadyRunning(st) == st.running

\* start_pipeline, lines 87-91
StartPipeline(r) ==
    /\ req[r].pc = "idle"
    /\ IF AlreadyRunning(status)
         THEN /\ req' = [req EXCEPT ![r] = [@ EXCEPT !.pc = "done",
                                                     !.result = "rejected",
                                                     !.error = "already_running"]]
              /\ UNCHANGED status
         ELSE /\ status' = [status EXCEPT !.running = TRUE, !.stage = "initializing"]
              /\ req' = [req EXCEPT ![r] = [@ EXCEPT !.pc = "config"]]
    /\ UNCHANGED <<store, rubrics, batch_size, ideas, evalRubrics, stageErr>>
    /\ UNCHANGED <<entry, caller, cur, spc, stats, started, ret, lastEvent>>
    /\ UNCHANGED poolVars
    /\ UNCHANGED detailVars

\* start_pipeline, line 102: get_evaluation_model_config returns a
\* configuration or raises ValueError
GetEvaluationModelConfig(r, found) ==
    /\ req[r].pc = "config"
    /\ IF found
         THEN /\ req' = [req EXCEPT ![r] = [@ EXCEPT !.pc = "construct"]]
              /\ UNCHANGED status
         ELSE /\ status' = ServiceFailed(status)
              /\ req' = [req EXCEPT ![r] = [@ EXCEPT !.pc = "done",
                                                     !.result = "failed",
                                                     !.error = "no_config"]]
    /\ UNCHANGED <<store, rubrics, batch_size, ideas, evalRubrics, stageErr>>
    /\ UNCHANGED <<entry, caller, cur, spc, stats, started, ret, lastEvent>>
    /\ UNCHANGED poolVars
    /\ UNCHANGED detailVars

\* start_pipeline, lines 116-129: the orchestrator is constructed and
\* run_full_pipeline is entered, or the construction raises TypeError
ConstructOrchestrator(r) ==
    /\ req[r].pc = "construct"
    /\ IF CallAccepted(OrchestratorCallKwargs, OrchestratorInitParams)
         THEN /\ entry = "none"
              /\ BeginCall("full", r, evaluation_batch_size)
              /\ status' = ServiceProgress(status, "extraction", 0)
              /\ req' = [req EXCEPT ![r] = [@ EXCEPT !.pc = "running"]]
         ELSE /\ status' = ServiceFailed(status)
              /\ req' = [req EXCEPT ![r] = [@ EXCEPT !.pc = "done",
                                                     !.result = "failed",
                                                     !.error = "type_error"]]
              /\ UNCHANGED <<batch_size, ideas, evalRubrics, stageErr>>
              /\ UNCHANGED <<entry, caller, cur, spc, stats, started, ret, lastEvent>>
              /\ UNCHANGED poolVars
    /\ UNCHANGED <<store, rubrics>>
    /\ UNCHANGED detailVars

\* ------------------------------------------- the loop of a stage runner
EnumerateFromZero(handled) == handled

\* enumerate(as_completed(futures), 1): the index of the iteration that
\* follows handled iterations
Enumerate(handled) == handled + 1

\* one iteration of the as_completed loop of a stage runner that was given
\* a progress callback, over total futures: the result of the future is
\* counted and the callback is invoked with the progress
HandleFuture(result) ==
    LET i == Enumerate(lp.handled) IN
    /\ lp.total > 0
    /\ lp.handled < lp.total
    /\ lp' = [lp EXCEPT !.handled = @ + 1,
                        !.i = i,
                        !.succeeded = SucceededAfter(@, result),
                        !.failed = FailedAfter(@, result),
                        !.progress = Progress(i, lp.total),
                        !.calls = @ + 1]
    /\ UNCHANGED pipeVars
    /\ UNCHANGED <<xw, cw, ew, mc>>

\* the runner selected between 1 and MaxTotal items
InitProgress ==
    /\ InitAtRest
    /\ xw = NoExtractWorker
    /\ cw = NoClassifyWorker
    /\ ew = NoEvaluateWorker
    /\ mc = NoConfigs
    /\ \E n \in 1..MaxTotal : lp = [NoLoop EXCEPT !.total = n]

NextProgress == \E result \in {"ok", "fail", "exc"} : HandleFuture(result)

SpecProgress == InitProgress /\ [][NextProgress]_vars

\* --------------------------------------------------- the extraction worker
\* what the extractor found in the files of an item
ExtractedTexts == {"slides", "demo"}
ContentTypes == {"Prototype", "Text"}

\* what content_processor.process_idea_files gives _extract_idea: no files,
\* content with its content-type tag, no content, or an exception
ProcessResults ==
    {[status |-> "no_files"], [status |-> "empty", extracted_content |-> ""],
     [status |-> "raise"]}
      \cup [status : {"processed"}, extracted_content : ExtractedTexts,
            content_type : ContentTypes]

\* DatabaseManager.update_extraction_status on the row of the item: both
\* branches of the method execute SET extraction_status = %s
update_extraction_status(row, status_value) == [row EXCEPT !.extraction_status = status_value]

\* _extract_idea on the item of the worker: each of the three branches that
\* follow process_idea_files calls update_extraction_status with the status
\* alone
ExtractIdea(result, writeOk, markOk) ==
    LET outcome == IF result.status = "raise" THEN "error" ELSE "ok"
        cause == Caught(outcome, writeOk)
    IN
    /\ xw.pc = "call"
    /\ IF cause = "none"
         THEN xw' = [xw EXCEPT !.pc = "done",
                               !.result = result,
                               !.calls = @ + 1,
                               !.row = update_extraction_status(@, "completed"),
                               !.res = "ok"]
         ELSE xw' = [xw EXCEPT !.pc = "done",
                               !.result = result,
                               !.calls = @ + 1,
                               !.row = IF markOk
                                         THEN update_extraction_status(@, FailedStatus)
                                         ELSE @,
                               !.res = IF markOk THEN "fail" ELSE "exc"]
    /\ UNCHANGED pipeVars
    /\ UNCHANGED <<lp, cw, ew, mc>>

\* the iteration of the as_completed loop that handles the worker's future
ExtractCounted ==
    /\ xw.pc = "done"
    /\ xw' = [xw EXCEPT !.pc = "counted",
                        !.succeeded = SucceededAfter(@, xw.res),
                        !.failed = FailedAfter(@, xw.res)]
    /\ UNCHANGED pipeVars
    /\ UNCHANGED <<lp, cw, ew, mc>>

\* the worker starts on an item the extraction query selected
InitExtract ==
    /\ InitAtRest
    /\ lp = NoLoop
    /\ cw = NoClassifyWorker
    /\ ew = NoEvaluateWorker
    /\ mc = NoConfigs
    /\ \E st \in {"unset", "pending"} :
          xw = [NoExtractWorker EXCEPT !.pc = "call", !.row.extraction_status = st]

NextExtract ==
    \/ \E result \in ProcessResults, writeOk \in BOOLEAN, markOk \in BOOLEAN :
          ExtractIdea(result, writeOk, markOk)
    \/ ExtractCounted

\* ------------------------------------------- the classification worker
\* markers the except clause of _classify_idea looks for in the text of the
\* exception it caught ('quota' and 'rate limit' in the lower-cased text)
RateLimitMarkers == {"429", "quota", "rate limit"}

\* the exception of a failed LLM call, as the set of those markers its text
\* carries
ErrorTexts == {{}, {"429"}, {"quota"}, {"rate limit"}}

\* the text of an LLM call that succeeded: a JSON object, text that is no
\* JSON (JSONDecodeError), JSON that is no object (any other exception of
\* the parsing code)
ResponseTexts == {"json", "garbage", "notobject"}

\* theme_definitions.THEME_TAXONOMY: four of its names, the catch-all among
\* them
THEME_TAXONOMY == {"Cybersecurity", "Smart Cities", "Social Impact", "Other"}

\* the key is not in the JSON object
Absent == "absent"

\* what a JSON object carries under 'primary_theme': a name of the taxonomy,
\* a name outside it, or nothing
PrimaryThemes == {"Cybersecurity", "Other", "Quantum Tech", Absent}

\* what a JSON object carries under 'secondary_themes': a list of names, of
\* the taxonomy or not, or a value that is no list
SecondaryNames == {"Smart Cities", "Other", "Quantum Tech"}

\* lists of four names, one with every name in the taxonomy
LongLists ==
    {<<"Smart Cities", "Social Impact", "Cybersecurity", "Other">>,
     <<"Smart Cities", "Quantum Tech", "Cybersecurity", "Other">>}

SecondaryLists ==
    {<<>>} \cup {<<x>> : x \in SecondaryNames}
           \cup {<<x, y>> : x \in SecondaryNames, y \in SecondaryNames}
           \cup LongLists

SecondaryThemes == [list : {TRUE}, items : SecondaryLists] \cup {[list |-> FALSE]}

\* what llm_service.chat_completion answers
LLMReplies ==
    [success : {TRUE}, text : ResponseTexts \ {"json"}]
      \cup [success : {TRUE}, text : {"json"}, primary_theme : PrimaryThemes,
            secondary_themes : SecondaryThemes]
      \cup [success : {FALSE}, error : ErrorTexts]

IsRateLimitAny(error) == TRUE

\* '429' in error_str or 'quota' in error_str.lower() or 'rate limit' in ...
IsRateLimit(error) == error \cap RateLimitMarkers # {}

DefaultClassification ==
    [primary_theme |-> "Other", secondary_themes |-> <<>>, industry |-> "Other",
     technologies |-> <<>>]

valid_secondary_downgraded(themes) ==
    [k \in DOMAIN themes |-> IF themes[k] \in THEME_TAXONOMY THEN themes[k] ELSE "Other"]

\* valid_secondary = [theme for theme in ... if theme in THEME_TAXONOMY]
valid_secondary(themes) == SelectSeq(themes, LAMBDA theme : theme \in THEME_TAXONOMY)

\* the classification made of a JSON object: 'primary_theme' defaults to
\* 'Other' and is replaced by 'Other' when it is not in the taxonomy,
\* 'secondary_themes' that is no list becomes [] and is then filtered;
\* industry and technologies are taken as they come
ParsedClassification(response) ==
    LET primary == IF response.primary_theme = Absent THEN "Other"
                   ELSE response.primary_theme
        secondary == IF response.secondary_themes.list
                       THEN response.secondary_themes.items ELSE <<>>
    IN  [primary_theme |-> IF primary \notin THEME_TAXONOMY THEN "Other" ELSE primary,
         secondary_themes |-> valid_secondary(secondary),
         industry |-> "Manufacturing", technologies |-> <<"TensorFlow">>]

_parse_classification_response_empty(response) ==
    IF response.text = "json" THEN ParsedClassification(response) ELSE NoClassification

\* TCSClassifier._parse_classification_response: both except clauses return
\* the default classification
_parse_classification_response(response) ==
    IF response.text = "json" THEN ParsedClassification(response)
    ELSE DefaultClassification

\* TCSClassifier.classify_idea: the classification it returns, or the class
\* of the exception it raises (a reply without success is raised as an
\* exception with the reply's error text)
classify_idea(reply) ==
    IF reply.success
      THEN [outcome |-> "ok", value |-> _parse_classification_response(reply)]
      ELSE [outcome |-> IF IsRateLimit(reply.error) THEN "ratelimit" ELSE "error",
            value |-> NoClassification]

wait_time_flat(att) == 5

\* wait_time = (attempt + 1) * 5
wait_time(att) == (att + 1) * 5

update_classification_status_first(row, c) ==
    [row EXCEPT !.classification_status = "completed"]

\* DatabaseManager.update_classification on the row of the item: one UPDATE
\* statement sets the four classification columns and the status, followed
\* by one commit (a rollback when it raises)
update_classification(row, c) ==
    [row EXCEPT !.classification = c, !.classification_status = "completed"]

\* one iteration of the loop of _classify_idea on the item of the worker:
\* what the attempt met is appended to tries, what the worker slept to waits
ClassifyIdea(reply, writeOk, markOk) ==
    LET r == classify_idea(reply)
        cause == Caught(r.outcome, writeOk)
        met == Append(cw.tries, [reply |-> reply, cause |-> cause])
    IN
    /\ cw.pc = "call"
    /\ IF cause = "none"
         THEN cw' = [cw EXCEPT !.pc = "done",
                               !.tries = met,
                               !.row = update_classification(@, r.value),
                               !.res = "ok"]
         ELSE IF Retries("classification", cause, cw.attempt)
           THEN cw' = [cw EXCEPT !.tries = met,
                                 !.waits = Append(@, wait_time(cw.attempt)),
                                 !.attempt = NextAttempt(@)]
           ELSE cw' = [cw EXCEPT !.pc = "done",
                                 !.tries = met,
                                 !.row = IF markOk
                                           THEN update_status(<<@>>, 1, "classification",
                                                              FailedStatus)[1]
                                           ELSE @,
                                 !.res = IF markOk THEN "fail" ELSE "exc"]
    /\ UNCHANGED pipeVars
    /\ UNCHANGED <<lp, xw, ew, mc>>

\* the iteration of the as_completed loop that handles the worker's future
ClassifyCounted ==
    /\ cw.pc = "done"
    /\ cw' = [cw EXCEPT !.pc = "counted",
                        !.succeeded = SucceededAfter(@, cw.res),
                        !.failed = FailedAfter(@, cw.res)]
    /\ UNCHANGED pipeVars
    /\ UNCHANGED <<lp, xw, ew, mc>>

\* the worker starts on an item the classification query selected
InitClassify ==
    /\ InitAtRest
    /\ lp = NoLoop
    /\ xw = NoExtractWorker
    /\ ew = NoEvaluateWorker
    /\ mc = NoConfigs
    /\ \E st \in {"unset", "pending", "failed"} :
          cw = [NoClassifyWorker EXCEPT !.pc = "call",
                                        !.row.extraction_status = "completed",
                                        !.row.classification_status = st]

NextClassify ==
    \/ \E reply \in LLMReplies, writeOk \in BOOLEAN, markOk \in BOOLEAN :
          ClassifyIdea(reply, writeOk, markOk)
    \/ ClassifyCounted

SpecClassify == InitClassify /\ [][NextClassify]_vars

\* ----------------------------------------------- the evaluation worker
\* Scores and totals are held in ten-thousandths.  The weights are the
\* percentages of the rubrics table; get_active_rubrics divides each by
\* 100.0, which cancels in the weighted total.  The percentages and the
\* scores drawn are such that the floating-point sums of the evaluator are
\* exact wherever a total meets a threshold.
Scale == 10000
RubricWeights == {0, 25, 50, 100}

\* a score of the response that float() rejects
NotANumber == -1
ResponseScores == {NotANumber, 0, 54999, 55000, 60000, 75000, 80000, 120000}

\* the names a response may score: the rubrics of the run and a name that is
\* none of them
ResponseKeys == RubricNames \cup {"Novelty"}

\* the "scores" object of a JSON response: a score for some of those names
ScoreObjects == UNION {[S -> ResponseScores] : S \in SUBSET ResponseKeys}

\* what model.generate_content answers: a response text (a JSON object with
\* its scores, or one of the two kinds of text the parsing code rejects), or
\* an exception
EvaluatorReplies ==
    [success : {TRUE}, text : {"json"}, scores : ScoreObjects]
      \cup [success : {TRUE}, text : {"garbage", "notobject"}, scores : {<<>>}]
      \cup [success : {FALSE}, error : ErrorTexts]

DefaultScore == 5 * Scale

\* max(1.0, min(10.0, score))
Clamp(v) == IF v < 1 * Scale THEN 1 * Scale ELSE IF v > 10 * Scale THEN 10 * Scale ELSE v

DefaultScores(rub) == [r \in DOMAIN rub |-> DefaultScore]

\* IdeaEvaluator._parse_evaluation_response: the scores object of the
\* response is kept; in it a rubric without a usable score gets 5.0 and the
\* score of a rubric is clamped to 1..10, an entry under any other name is
\* left as it came; both except clauses return the default evaluation
_parse_evaluation_response(rub, reply) ==
    CASE reply.text = "json" ->
           [scores |-> [r \in DOMAIN rub \cup DOMAIN reply.scores |->
                          IF r \notin DOMAIN rub THEN reply.scores[r]
                          ELSE IF r \notin DOMAIN reply.scores THEN DefaultScore
                          ELSE IF reply.scores[r] = NotANumber THEN DefaultScore
                          ELSE Clamp(reply.scores[r])],
            key_strengths |-> <<"strength">>,
            key_concerns |-> <<"concern">>]
      [] reply.text = "garbage" ->
           [scores |-> DefaultScores(rub),
            key_strengths |-> <<>>,
            key_concerns |-> <<"Failed to parse evaluation response">>]
      [] OTHER ->
           [scores |-> DefaultScores(rub),
            key_strengths |-> <<>>,
            key_concerns |-> <<"Evaluation error occurred">>]

RECURSIVE SumOver(_, _)
\* sum(...) of the values of f over S
SumOver(S, f) ==
    IF S = {} THEN 0
    ELSE LET x == CHOOSE y \in S : TRUE IN f[x] + SumOver(S \ {x}, f)

_calculate_unweighted_mean(rub, scores) ==
    [num |-> SumOver(DOMAIN rub, scores), den |-> Cardinality(DOMAIN rub)]

\* IdeaEvaluator._calculate_weighted_total: the quotient num / den
_calculate_weighted_total(rub, scores) ==
    LET total_weight == SumOver(DOMAIN rub, rub)
        weighted_sum ==
            SumOver(DOMAIN rub,
                    [r \in DOMAIN rub |->
                       (IF r \in DOMAIN scores THEN scores[r] ELSE DefaultScore) * rub[r]])
    IN IF total_weight = 0
         THEN [num |-> 0, den |-> 1]
         ELSE [num |-> weighted_sum, den |-> total_weight]

_generate_recommendation_strict(w) ==
    IF 10 * w.num > 75 * Scale * w.den THEN "go"
    ELSE IF 10 * w.num > 55 * Scale * w.den THEN "consider-with-mitigations"
    ELSE "no-go"

\* IdeaEvaluator._generate_recommendation: thresholds 7.5 and 5.5
_generate_recommendation(w) ==
    IF 10 * w.num >= 75 * Scale * w.den THEN "go"
    ELSE IF 10 * w.num >= 55 * Scale * w.den THEN "consider-with-mitigations"
    ELSE "no-go"

\* IdeaEvaluator.evaluate_idea: the evaluation it returns, or the class of
\* the exception it raises
evaluate_idea(rub, reply) ==
    IF reply.success
      THEN LET result == _parse_evaluation_response(rub, reply)
               weighted_total == _calculate_weighted_total(rub, result.scores)
           IN [outcome |-> "ok",
               value |-> [scores |-> result.scores,
                          key_strengths |-> result.key_strengths,
                          key_concerns |-> result.key_concerns,
                          weighted_total |-> weighted_total,
                          investment_recommendation |->
                              _generate_recommendation(weighted_total)]]
      ELSE [outcome |-> "error", value |-> NoEvaluation]

\* DatabaseManager.update_evaluation on the row of the item: one UPDATE
\* statement sets the five evaluation columns and the status, followed by
\* one commit (a rollback when it raises)
update_evaluation(row, e) ==
    [row EXCEPT !.evaluation = e, !.evaluation_status = "completed"]

\* _evaluate_idea on the item of the worker, with an evaluator constructed
\* from the rubrics
EvaluateIdea(reply, writeOk, markOk) ==
    LET r == evaluate_idea(ew.rubrics, reply)
        cause == Caught(r.outcome, writeOk)
    IN
    /\ ew.pc = "call"
    /\ IF cause = "none"
         THEN ew' = [ew EXCEPT !.pc = "done",
                               !.reply = reply,
                               !.calls = @ + 1,
                               !.row = update_evaluation(@, r.value),
                               !.res = "ok"]
         ELSE ew' = [ew EXCEPT !.pc = "done",
                               !.reply = reply,
                               !.calls = @ + 1,
                               !.row = IF markOk
                                         THEN update_status(<<@>>, 1, "evaluation",
                                                            FailedStatus)[1]
                                         ELSE @,
                               !.res = IF markOk THEN "fail" ELSE "exc"]
    /\ UNCHANGED pipeVars
    /\ UNCHANGED <<lp, xw, cw, mc>>

\* the iteration of the as_completed loop that handles the worker's future
EvaluateCounted ==
    /\ ew.pc = "done"
    /\ ew' = [ew EXCEPT !.pc = "counted",
                        !.succeeded = SucceededAfter(@, ew.res),
                        !.failed = FailedAfter(@, ew.res)]
    /\ UNCHANGED pipeVars
    /\ UNCHANGED <<lp, xw, cw, mc>>

\* the worker starts on an item the evaluation query selected
InitEvaluate ==
    /\ InitAtRest
    /\ lp = NoLoop
    /\ xw = NoExtractWorker
    /\ cw = NoClassifyWorker
    /\ mc = NoConfigs
    /\ \E rub \in [RubricNames -> RubricWeights], st \in {"unset", "pending", "failed"} :
          ew = [NoEvaluateWorker EXCEPT !.pc = "call", !.rubrics = rub,
                                        !.row.extraction_status = "completed",
                                        !.row.classification_status = "completed",
                                        !.row.evaluation_status = st]

NextEvaluate ==
    \/ \E reply \in EvaluatorReplies, writeOk \in BOOLEAN, markOk \in BOOLEAN :
          EvaluateIdea(reply, writeOk, markOk)
    \/ EvaluateCounted

SpecEvaluate == InitEvaluate /\ [][NextEvaluate]_vars

\* ------------------------------------------- the model configurations
\* ModelPurpose
Purposes == {"evaluation", "verification"}

\* the INSERT of create_config sets status 'draft' and neither is_active
\* nor purpose: the row is not active and has no purpose
create_config(c) ==
    /\ ~mc[c].exists
    /\ mc' = [mc EXCEPT ![c] = [exists |-> TRUE, status |-> "draft",
                                is_active |-> FALSE, purpose |-> "none"]]
    /\ UNCHANGED pipeVars
    /\ UNCHANGED <<lp, xw, cw, ew>>

\* UPDATE ... SET status = %s WHERE id = %s
update_config_status(rows, c, status_value) ==
    [rows EXCEPT ![c].status = status_value]

\* test_connection: the configuration is read, the model is called, and a
\* successful test writes status 'tested'
test_connection(c, success) ==
    /\ mc[c].exists
    /\ mc' = IF success THEN update_config_status(mc, c, "tested") ELSE mc
    /\ UNCHANGED pipeVars
    /\ UNCHANGED <<lp, xw, cw, ew>>

\* activate_config, one transaction: the active rows of the purpose are
\* made inactive, then the row is made active for the purpose
activate_config(c, purpose) ==
    /\ mc[c].exists
    /\ mc[c].status \in {"tested", "inactive"}
    /\ LET deactivated ==
               [d \in ConfigIds |->
                   IF mc[d].exists /\ mc[d].is_active /\ mc[d].purpose = purpose
                     THEN [mc[d] EXCEPT !.is_active = FALSE, !.status = "inactive"]
                     ELSE mc[d]]
       IN mc' = [deactivated EXCEPT ![c].is_active = TRUE,
                                    ![c].status = "active",
                                    ![c].purpose = purpose]
    /\ UNCHANGED pipeVars
    /\ UNCHANGED <<lp, xw, cw, ew>>

\* deactivate_config: UPDATE ... WHERE id = %s AND is_active = true
deactivate_config(c) ==
    /\ mc[c].exists
    /\ mc[c].is_active
    /\ mc' = [mc EXCEPT ![c].is_active = FALSE, ![c].status = "tested"]
    /\ UNCHANGED pipeVars
    /\ UNCHANGED <<lp, xw, cw, ew>>

\* update_config: refused for an active configuration; new settings reset
\* the status to 'draft', a new name or new notes change no status
update_config(c, settings_given) ==
    /\ mc[c].exists
    /\ ~mc[c].is_active
    /\ mc' = IF settings_given THEN update_config_status(mc, c, "draft") ELSE mc
    /\ UNCHANGED pipeVars
    /\ UNCHANGED <<lp, xw, cw, ew>>

\* delete_config: DELETE ... WHERE id = %s AND is_active = false
delete_config(c) ==
    /\ mc[c].exists
    /\ ~mc[c].is_active
    /\ mc' = [mc EXCEPT ![c] = NoConfig]
    /\ UNCHANGED pipeVars
    /\ UNCHANGED <<lp, xw, cw, ew>>

InitConfigs ==
    /\ InitAtRest
    /\ lp = NoLoop
    /\ xw = NoExtractWorker
    /\ cw = NoClassifyWorker
    /\ ew = NoEvaluateWorker
    /\ mc = NoConfigs

NextConfigs ==
    \/ \E c \in ConfigIds : create_config(c)
    \/ \E c \in ConfigIds, success \in BOOLEAN : test_connection(c, success)
    \/ \E c \in ConfigIds, purpose \in Purposes : activate_config(c, purpose)
    \/ \E c \in ConfigIds : deactivate_config(c)
    \/ \E c \in ConfigIds, settings_given \in BOOLEAN : update_config(c, settings_given)
    \/ \E c \in ConfigIds : delete_config(c)

\* the operations of ModelConfigService on the configurations, one call
\* at a time
SpecConfigs == InitConfigs /\ [][NextConfigs]_vars

\* ------------------------------------------------------ specifications
\* one worker of one of the three stages on its item
InitWorkers == InitExtract \/ InitClassify \/ InitEvaluate

NextWorkers == NextExtract \/ NextClassify \/ NextEvaluate

SpecWorkers == InitWorkers /\ [][NextWorkers]_vars

EntryPoints == {"full", "extraction", "classification", "evaluation"}
Outcomes == {"ok", "error", "ratelimit"}

\* what one pass of a worker can meet: the outcome of the transform, whether
\* the completing update goes through (it is reached only after a transform
\* that returned) and whether the failure-marking update goes through (it
\* is reached only after an exception)
Scenarios ==
    {sc \in Outcomes \X BOOLEAN \X BOOLEAN :
        /\ sc[1] # "ok" => sc[2]
        /\ (sc[1] = "ok" /\ sc[2]) => sc[3]}

\* the orchestrator and its stage runners, driven by a direct caller
Next ==
    \/ \E e \in EntryPoints, b \in 1..MaxBatch : CallOrchestrator(e, b)
    \/ \E ok \in BOOLEAN : GetActiveRubrics(ok)
    \/ ConstructEvaluator
    \/ \E ok \in BOOLEAN : SelectIdeas(ok)
    \/ \E s \in Stages, i \in Ideas : WorkerStart(s, i)
    \/ \E s \in Stages, i \in Ideas, sc \in Scenarios :
          RunUnit(s, i, sc[1], sc[2], sc[3])
    \/ \E i \in Ideas : Collect(i)
    \/ StageFinish

Spec == Init /\ [][Next]_vars

\* the orchestrator and its stage runners, with a pool of MaxBatch workers,
\* next to another client of the store that inserts items
NextConcurrent ==
    \/ \E e \in EntryPoints : CallOrchestrator(e, MaxBatch)
    \/ \E ok \in BOOLEAN : GetActiveRubrics(ok)
    \/ ConstructEvaluator
    \/ \E ok \in BOOLEAN : SelectIdeas(ok)
    \/ \E s \in Stages, i \in Ideas : WorkerStart(s, i)
    \/ \E s \in Stages, i \in Ideas, sc \in Scenarios :
          RunUnit(s, i, sc[1], sc[2], sc[3])
    \/ \E i \in Ideas : Collect(i)
    \/ StageFinish
    \/ \E i \in Ideas, st \in {"pending", "completed"} : insert_idea(i, st)

SpecConcurrent == Init /\ [][NextConcurrent]_vars

\* a step of a call in progress: of the coordinating thread, of the pool
\* handing a submitted unit of work to a free worker, or of a worker
RunStep ==
    \/ \E ok \in BOOLEAN : GetActiveRubrics(ok)
    \/ ConstructEvaluator
    \/ \E ok \in BOOLEAN : SelectIdeas(ok)
    \/ \E s \in Stages, i \in Ideas : WorkerStart(s, i)
    \/ \E s \in Stages, i \in Ideas, sc \in Scenarios :
          RunUnit(s, i, sc[1], sc[2], sc[3])
    \/ \E i \in Ideas : Collect(i)
    \/ StageFinish

\* calls of the entry points with the pool size of the settings
NextRuns ==
    \/ \E e \in EntryPoints : CallOrchestrator(e, evaluation_batch_size)
    \/ RunStep

\* the orchestrator and its stage runners when every external call returns
\* or raises and the threads are scheduled: a call in progress that can take
\* a step takes one
SpecFair == Init /\ [][NextRuns]_vars /\ WF_vars(RunStep)

\* the start requests of the service
NextService ==
    \/ \E r \in Requests : StartPipeline(r)
    \/ \E r \in Requests, found \in BOOLEAN : GetEvaluationModelConfig(r, found)
    \/ \E r \in Requests : ConstructOrchestrator(r)

SpecService == Init /\ [][NextService]_vars

\* the start requests of the service; a request that was accepted runs on
\* to its end
SpecServiceFair ==
    /\ SpecService
    /\ \A r \in Requests :
          /\ WF_vars(\E found \in BOOLEAN : GetEvaluationModelConfig(r, found))
          /\ WF_vars(ConstructOrchestrator(r))

TypeOK ==
    /\ entry \in EntryPoints \cup {"none"}
    /\ cur \in Stages \cup {"none"}
    /\ spc \in {"idle", "rubrics", "evaluator", "select", "pool"}
    /\ ideas \subseteq Ideas
    /\ collected \subseteq ideas

\* ------------------------------------------------------------ properties
InFlight(s) == {i \in Ideas : unit[s][i] \in {"queued", "call"}}
InProgress == {"config", "construct", "running"}

\* C1: the classification stage selects only items whose extraction_status
\* is completed and the evaluation stage only items whose
\* classification_status is completed: this holds of the two selection
\* queries in every state of the store, and of the selection a stage run
\* works on for as long as the run lasts.
C1_UpstreamGating ==
    /\ \A i \in get_ideas_for_classification(store) :
          store[i].extraction_status = "completed"
    /\ \A i \in get_ideas_for_evaluation(store) :
          store[i].classification_status = "completed"
    /\ (spc = "pool" /\ cur = "classification")
          => \A i \in ideas : store[i].extraction_status = "completed"
    /\ (spc = "pool" /\ cur = "evaluation")
          => \A i \in ideas : store[i].classification_status = "completed"

\* a classification run works on a selection that leaves out an item
\* because its extraction is not completed
C1_Witness ==
    /\ spc = "pool"
    /\ cur = "classification"
    /\ ideas # {}
    /\ \E j \in Ideas \ ideas :
          /\ store[j].extraction_status # "completed"
          /\ store[j].classification_status # "completed"

\* C2: in run_full_pipeline no unit of work of a stage other than the one in
\* progress is submitted or running, and when a stage's selection query is
\* about to be issued no unit of work is in flight at all: extraction has
\* drained before classification selects, classification before evaluation.
C2_StagesSequential ==
    entry = "full" =>
        /\ \A s \in Stages : s # cur => InFlight(s) = {}
        /\ spc \in {"select", "rubrics", "evaluator"} => \A s \in Stages : InFlight(s) = {}

\* the classification selection is about to be issued after an extraction
\* stage that processed several items
C2_Witness ==
    /\ entry = "full"
    /\ cur = "classification"
    /\ spc = "select"
    /\ stats["extraction"].processed >= 2

\* C3: at most one accepted start request is between its acceptance and its
\* end, and the step of a start request that observes running = true gives
\* the explicit error and changes nothing but that request's result: no
\* orchestrator call begins, nothing is selected, the store and the run
\* state are untouched.
C3_SingleRun ==
    /\ [](Cardinality({r \in Requests : req[r].pc \in InProgress}) <= 1)
    /\ [][\A r \in Requests :
            (req[r].pc = "idle" /\ status.running /\ req'[r].pc # "idle") =>
                /\ req'[r].result = "rejected"
                /\ req'[r].error = "already_running"
                /\ UNCHANGED <<store, rubrics, status, entry, caller, batch_size, cur,
                               spc, ideas, stats, started, evalRubrics, stageErr, ret,
                               lastEvent>>
                /\ UNCHANGED poolVars]_vars

\* a request was rejected while another one is between acceptance and end
C3_Witness ==
    \E r \in Requests, q \in Requests :
        /\ req[r].result = "rejected"
        /\ req[q].pc \in InProgress
        /\ status.running

\* C4: the counters of a stage runner add up: while it collects, succeeded +
\* failed is the number of futures handled, and the statistics of every
\* stage run that returned satisfy processed = succeeded + failed, whatever
\* mix of successes, failures and escaped exceptions the workers produced.
C4_CountersAddUp ==
    /\ spc = "pool" => succeeded + failed = Cardinality(collected)
    /\ \A s \in Stages : stats[s].processed = stats[s].succeeded + stats[s].failed
    /\ ret.kind = "returned" =>
          \A s \in Stages :
              ret.stats[s].processed = ret.stats[s].succeeded + ret.stats[s].failed

\* a call returned the statistics of a stage with a success and a failure
C4_Witness ==
    /\ ret.kind = "returned"
    /\ \E s \in Stages :
          /\ ret.stats[s].processed >= 2
          /\ ret.stats[s].succeeded >= 1
          /\ ret.stats[s].failed >= 1


\* selected items of the stage in progress whose unit of work has ended:
\* with a result that reports success, with one that does not or with an
\* exception
DoneOk == {i \in ideas : unit[cur][i] = "done" /\ res[cur][i] = "ok"}
DoneBad == {i \in ideas : unit[cur][i] = "done" /\ res[cur][i] \in {"fail", "exc"}}

\* C5: in a classification run, every finished item has the outcome of its
\* own pass alone: completed and counted in succeeded when its pass met no
\* exception, otherwise counted once in failed and, the update that marks it
\* having gone through, left with classification_status = failed; this holds
\* in particular of an item whose classify transform raised a non-rate-limit
\* exception.  The run does not raise once its workers have started, and it
\* returns processed = the number of selected items with the counts of these
\* outcomes ({processed:1, succeeded:0, failed:1} for a single failing item).
C5_FailureIsolated ==
    /\ []((cur = "classification" /\ spc = "pool") =>
            /\ \A i \in ideas : unit[cur][i] = "done" =>
                  /\ why[cur][i] = "none" <=> res[cur][i] = "ok"
                  /\ why[cur][i] = "error" => res[cur][i] \in {"fail", "exc"}
                  /\ res[cur][i] = "ok" => store[i].classification_status = "completed"
                  /\ res[cur][i] = "fail" => store[i].classification_status = "failed"
            /\ succeeded = Cardinality(DoneOk \cap collected)
            /\ failed = Cardinality(DoneBad \cap collected))
    /\ [][(cur = "classification" /\ spc = "pool" /\ spc' # "pool") =>
            /\ ret'.kind # "raised"
            /\ stageErr' = "none"
            /\ collected = ideas
            /\ stats'[cur] = [processed |-> Cardinality(ideas),
                              succeeded |-> Cardinality(DoneOk),
                              failed |-> Cardinality(DoneBad)]]_vars

\* a classification run has handled every selected item: one whose
\* transform raised a plain exception is marked failed, another completed
C5_Witness ==
    /\ cur = "classification"
    /\ spc = "pool"
    /\ collected = ideas
    /\ \E i \in ideas, j \in ideas :
          /\ why[cur][i] = "error"
          /\ res[cur][i] = "fail"
          /\ store[i].classification_status = "failed"
          /\ res[cur][j] = "ok"
          /\ store[j].classification_status = "completed"

UpstreamCompleted(s, i) ==
    CASE s = "extraction" -> TRUE
      [] s = "classification" -> store[i].extraction_status = "completed"
      [] s = "evaluation" -> store[i].classification_status = "completed"

\* C6: for each of the three stages, an item whose own stage status is
\* failed and whose upstream stage status is completed (extraction has no
\* upstream) is in the stage's selection.
C6_FailedReselected ==
    \A s \in Stages, i \in Ideas :
        (store[i][StatusColumn(s)] = "failed" /\ UpstreamCompleted(s, i))
            => i \in SelectFor(s, store)

\* the stage runners a full pipeline has entered when the runner of stage s
\* is in progress
UpTo(s) ==
    CASE s = "extraction" -> {"extraction"}
      [] s = "classification" -> {"extraction", "classification"}
      [] s = "evaluation" -> Stages

\* C7 as stated: when a stage runner raises during run_full_pipeline no later
\* stage is started, the exception propagates, and the failure the caller
\* gets carries the statistics of the stages that had completed.
C7_PartialStatsReported ==
    (stageErr # "none" /\ ret.entry = "full") =>
        /\ ret.kind = "raised"
        /\ started = UpTo(stageErr)
        /\ \A s \in started \ {stageErr} : ret.stats[s] = stats[s]

\* C7 amended: when a stage runner raises, the call ends at once with that
\* exception, in run_full_pipeline no later stage runner is entered, and the
\* caller gets the exception alone, without any stage statistics.
C7_RaiseAborts ==
    stageErr # "none" =>
        /\ entry = "none"
        /\ ret.kind = "raised"
        /\ ret.stage = stageErr
        /\ ret.stats = NoneAll
        /\ ret.entry = "full" => started = UpTo(stageErr)

\* the classification runner raised in a full pipeline whose extraction
\* stage had returned statistics
C7_Witness ==
    /\ stageErr = "classification"
    /\ ret.entry = "full"
    /\ ret.kind = "raised"
    /\ stats["extraction"].processed >= 1
    /\ "evaluation" \notin started

C9_StartRunsPipeline ==
    \A r \in Requests :
        (req[r].pc = "done" /\ req[r].error \notin {"already_running", "no_config", "stage"})
            => /\ req[r].result = "success"
               /\ \A s \in Stages : req[r].stats[s] # NoStats

\* C10: running is true exactly while an accepted request is between its
\* acceptance and its end; the step that ends an accepted request leaves
\* running = false, with stage = completed when run_full_pipeline returned
\* and stage = failed when the configuration, the construction or a stage
\* raised; and every accepted request reaches that end.
C10_RunningReset ==
    /\ [](status.running <=> \E r \in Requests : req[r].pc \in InProgress)
    /\ [][\A r \in Requests :
            (req[r].pc \in InProgress /\ req'[r].pc = "done") =>
                /\ ~status'.running
                /\ req'[r].result \in {"success", "failed"}
                /\ status'.stage = IF req'[r].result = "success"
                                     THEN "completed" ELSE "failed"]_vars
    /\ \A r \in Requests : (req[r].pc \in InProgress) ~> (req[r].pc = "done")

\* an accepted request has ended in a failure and left running = false
C10_Witness ==
    \E r \in Requests :
        /\ req[r].pc = "done"
        /\ req[r].result = "failed"
        /\ ~status.running
        /\ status.stage = "failed"

\* the classification worker has returned
ClassifyEnded == cw.pc \in {"done", "counted"}

\* the first n attempts of the worker each met a failed call whose error
\* text carries a rate-limit marker
RateLimited(n) ==
    \A k \in 1..n :
        /\ ~cw.tries[k].reply.success
        /\ cw.tries[k].reply.error \cap {"429", "quota", "rate limit"} # {}

\* C11: a classification item whose call fails with a rate-limit error (an
\* error text with 429, quota or rate limit) on attempts 1 and 2 and goes
\* through on attempt 3 ends with classification_status = completed, its
\* future is counted in succeeded and not in failed, and its worker slept
\* exactly twice, 5 and then 10 time units; and every failed call whose text
\* carries one of the three markers is taken as a rate limit.
C11_RateLimitRetry ==
    /\ \A k \in 1..Len(cw.tries) :
          (~cw.tries[k].reply.success
             /\ cw.tries[k].reply.error \cap {"429", "quota", "rate limit"} # {})
            => cw.tries[k].cause = "ratelimit"
    /\ (ClassifyEnded /\ Len(cw.tries) = 3 /\ RateLimited(2) /\ cw.tries[3].cause = "none")
          => /\ cw.row.classification_status = "completed"
             /\ cw.res = "ok"
             /\ cw.waits = <<5, 10>>
             /\ cw.pc = "counted" => (cw.succeeded = 1 /\ cw.failed = 0)

\* the worker met a 429 and a quota error, then a well-formed response, and
\* its future has been counted
C11_Witness ==
    /\ cw.pc = "counted"
    /\ Len(cw.tries) = 3
    /\ cw.tries[1].reply = [success |-> FALSE, error |-> {"429"}]
    /\ cw.tries[2].reply = [success |-> FALSE, error |-> {"quota"}]
    /\ cw.tries[3].reply.success
    /\ cw.tries[3].reply.text = "json"
    /\ cw.tries[3].cause = "none"
    /\ cw.waits = <<5, 10>>
    /\ cw.succeeded = 1
    /\ cw.row.classification_status = "completed"

\* C12: the worker makes at most 3 classify attempts on its item and sleeps
\* at most twice; an item that is rate-limited on all 3 attempts is then an
\* ordinary failure: no fourth attempt is made, the worker has ended, the
\* item is marked classification_status = failed (the update that marks it
\* having gone through) and its future is counted once in failed and not in
\* succeeded.
C12_AttemptCeiling ==
    /\ Len(cw.tries) <= 3
    /\ Len(cw.waits) <= 2
    /\ cw.pc = "call" => Len(cw.tries) <= 2
    /\ (Len(cw.tries) = 3 /\ RateLimited(3))
          => /\ ClassifyEnded
             /\ cw.res \in {"fail", "exc"}
             /\ cw.res = "fail" => cw.row.classification_status = "failed"
             /\ cw.row.classification = NoClassification
             /\ cw.pc = "counted" => (cw.failed = 1 /\ cw.succeeded = 0)

\* the worker was rate-limited three times, marked its item failed and its
\* future has been counted
C12_Witness ==
    /\ cw.pc = "counted"
    /\ Len(cw.tries) = 3
    /\ RateLimited(3)
    /\ cw.res = "fail"
    /\ cw.row.classification_status = "failed"
    /\ cw.failed = 1
    /\ cw.succeeded = 0
    /\ cw.waits = <<5, 10>>

\* C13 as stated: a stage run that finds no eligible item returns exactly
\* {processed:0, succeeded:0, failed:0} (unless one of its queries on the
\* store itself raises), starts no worker, invokes no progress callback and
\* writes nothing to the store.
C13_EmptySelectionZero ==
    [][(cur \in Stages /\ spc # "pool" /\ SelectFor(cur, store) = {})
         => /\ spc' # "pool"
            /\ store' = store
            /\ unit' = unit
            /\ lastEvent' = lastEvent \/ lastEvent'.stage # cur
            /\ cur' # cur =>
                  \/ spc \in {"rubrics", "select"} /\ stageErr' = cur
                  \/ /\ stageErr' = "none"
                     /\ ret'.kind # "raised"
                     /\ stats'[cur] = ZeroStats]_vars

C15_ProgressRounded ==
    /\ lp.calls = lp.handled
    /\ lp.handled >= 1 =>
          /\ 2 * (100 * lp.handled - lp.progress * lp.total) <= lp.total
          /\ 2 * (lp.progress * lp.total - 100 * lp.handled) <= lp.total

\* C15 amended: after the k-th of n selected items completes, with success
\* or failure, the stage has invoked the progress callback exactly k times,
\* the last time with the percentage 100 * k / n truncated to an integer.
C15_ProgressTruncated ==
    /\ lp.calls = lp.handled
    /\ lp.i = lp.handled
    /\ lp.succeeded + lp.failed = lp.handled
    /\ lp.handled >= 1 =>
          /\ lp.progress * lp.total <= 100 * lp.handled
          /\ 100 * lp.handled < (lp.progress + 1) * lp.total

\* two of three items have completed, one of them with a failure, and 66 was
\* reported
C15_Witness ==
    /\ lp.total = 3
    /\ lp.handled = 2
    /\ lp.failed = 1
    /\ lp.calls = 2
    /\ lp.progress = 66

\* C16: within one stage run over n >= 1 selected items the progress values
\* reported never decrease, and 100 is the value reported once the last
\* selected item is accounted for and at no earlier invocation.
C16_ProgressMonotone ==
    /\ []((lp.total >= 1 /\ lp.handled = lp.total) => lp.progress = 100)
    /\ [](lp.progress = 100 => lp.handled = lp.total)
    /\ [][lp.progress' >= lp.progress]_vars

\* the last of seven items is accounted for and 100 was reported
C16_Witness ==
    /\ lp.total = 7
    /\ lp.handled = 7
    /\ lp.calls = 7
    /\ lp.progress = 100

\* the evaluation worker has returned
EvaluateEnded == ew.pc \in {"done", "counted"}

\* C17 as stated: an evaluation whose LLM response cannot be parsed as the
\* expected structure makes the item fail: its future reports no success and
\* is counted in failed, its evaluation_status becomes failed (the update
\* that marks it having gone through), and no scores, weighted total or
\* recommendation are written for it.
C17_UnparseableEvaluationFails ==
    (EvaluateEnded /\ ew.reply.success /\ ew.reply.text \in {"garbage", "notobject"})
        => /\ ew.res \in {"fail", "exc"}
           /\ ew.res = "fail" => ew.row.evaluation_status = "failed"
           /\ ew.row.evaluation = NoEvaluation
           /\ ew.pc = "counted" => (ew.failed = 1 /\ ew.succeeded = 0)

C19_WeightedTotal ==
    (EvaluateEnded /\ ew.res = "ok") =>
        LET e == ew.row.evaluation
            wA == ew.rubrics["A"]
            wB == ew.rubrics["B"]
        IN /\ wA + wB = 0 => e.weighted_total = [num |-> 0, den |-> 1]
           /\ wA + wB # 0 =>
                 /\ e.weighted_total.num = e.scores["A"] * wA + e.scores["B"] * wB
                 /\ e.weighted_total.den = wA + wB
           /\ (wA = 50 /\ wB = 50 /\ e.scores["A"] = 80000 /\ e.scores["B"] = 60000)
                 => e.weighted_total.num = 70000 * e.weighted_total.den

\* rubrics {A:50, B:50} and scores {A:8, B:6} were evaluated to 7.0
C19_Witness ==
    /\ EvaluateEnded
    /\ ew.res = "ok"
    /\ ew.rubrics = [r \in RubricNames |-> 50]
    /\ ew.row.evaluation.scores["A"] = 80000
    /\ ew.row.evaluation.scores["B"] = 60000
    /\ ew.row.evaluation.weighted_total = [num |-> 7000000, den |-> 100]

\* C20: the recommendation the evaluator stores is go iff the weighted total
\* w >= 7.5, consider-with-mitigations iff 5.5 <= w < 7.5 and no-go iff
\* w < 5.5; so 7.5 gives go, 5.5 consider-with-mitigations, 5.4999 no-go.
C20_Recommendation ==
    (EvaluateEnded /\ ew.res = "ok") =>
        LET w == ew.row.evaluation.weighted_total
            r == ew.row.evaluation.investment_recommendation
        IN /\ r \in {"go", "consider-with-mitigations", "no-go"}
           /\ r = "go" <=> 2 * w.num >= 150000 * w.den
           /\ r = "consider-with-mitigations"
                 <=> (2 * w.num >= 110000 * w.den /\ 2 * w.num < 150000 * w.den)
           /\ r = "no-go" <=> 2 * w.num < 110000 * w.den
           /\ w.num = 75000 * w.den => r = "go"
           /\ w.num = 55000 * w.den => r = "consider-with-mitigations"
           /\ w.num = 54999 * w.den => r = "no-go"

\* a weighted total of 5.4999 was given no-go
C20_Witness ==
    /\ EvaluateEnded
    /\ ew.res = "ok"
    /\ ew.row.evaluation.weighted_total.den > 0
    /\ ew.row.evaluation.weighted_total.num = 54999 * ew.row.evaluation.weighted_total.den
    /\ ew.row.evaluation.investment_recommendation = "no-go"

\* C21 as stated: for every parseable response the score mapping the
\* evaluator returns, and the worker stores, has one entry per rubric of the
\* run and no other, every entry is within 1.0 - 10.0, a response score
\* below 1 has become 1.0, one above 10 has become 10.0 and a rubric the
\* response does not score has 5.0.
C21_ScoresPerRubricInRange ==
    (EvaluateEnded /\ ew.res = "ok" /\ ew.reply.text = "json") =>
        LET sc == ew.row.evaluation.scores IN
        /\ DOMAIN sc = RubricNames
        /\ \A r \in DOMAIN sc : sc[r] >= 10000 /\ sc[r] <= 100000
        /\ \A r \in RubricNames :
              /\ r \notin DOMAIN ew.reply.scores => sc[r] = 50000
              /\ (r \in DOMAIN ew.reply.scores /\ ew.reply.scores[r] = 0) => sc[r] = 10000
              /\ (r \in DOMAIN ew.reply.scores /\ ew.reply.scores[r] = 120000)
                    => sc[r] = 100000

\* C22: when the call of the classification worker succeeded with a JSON
\* object (and the update of the store went through), the primary theme
\* stored is a name of the taxonomy: the one of the response when that is in
\* the taxonomy, Other otherwise; the secondary themes stored are those of
\* the response that are in the taxonomy, as many and no Other more than
\* the response listed: one outside the taxonomy is removed, not replaced.
C22_ThemesValidated ==
    (ClassifyEnded /\ cw.res = "ok" /\ cw.tries[Len(cw.tries)].reply.text = "json") =>
        LET reply == cw.tries[Len(cw.tries)].reply
            c == cw.row.classification
            listed == IF reply.secondary_themes.list
                        THEN reply.secondary_themes.items ELSE <<>>
            Count(seq, t) == Cardinality({k \in DOMAIN seq : seq[k] = t})
        IN
        /\ c.primary_theme \in THEME_TAXONOMY
        /\ reply.primary_theme \in THEME_TAXONOMY => c.primary_theme = reply.primary_theme
        /\ reply.primary_theme \notin THEME_TAXONOMY => c.primary_theme = "Other"
        /\ \A t \in THEME_TAXONOMY :
              Count(c.secondary_themes, t) = Count(listed, t)
        /\ \A k \in DOMAIN c.secondary_themes : c.secondary_themes[k] \in THEME_TAXONOMY
        /\ Len(c.secondary_themes) =
              Cardinality({k \in DOMAIN listed : listed[k] \in THEME_TAXONOMY})

\* the response names Quantum Tech as primary theme and lists it between
\* two secondary themes: the item is completed with primary theme Other and
\* the one secondary theme that is in the taxonomy
C22_Witness ==
    /\ cw.pc = "counted"
    /\ cw.res = "ok"
    /\ Len(cw.tries) = 1
    /\ cw.tries[1].reply.success
    /\ cw.tries[1].reply.text = "json"
    /\ cw.tries[1].reply.primary_theme = "Quantum Tech"
    /\ cw.tries[1].reply.secondary_themes =
          [list |-> TRUE, items |-> <<"Quantum Tech", "Smart Cities">>]
    /\ cw.row.classification.primary_theme = "Other"
    /\ cw.row.classification.secondary_themes = <<"Smart Cities">>
    /\ cw.row.classification_status = "completed"

\* C23 as stated: when the loop of a stage runner has handled every future
\* (the runner is about to return), every item it selected has that stage's
\* status completed if its future was counted in succeeded and failed if it
\* was counted in failed, whatever raised inside the worker; none is left
\* unset or pending.
C23_SelectedItemsSettled ==
    (spc = "pool" /\ collected = ideas) =>
        \A i \in ideas :
            /\ res[cur][i] = "ok" => store[i][StatusColumn(cur)] = "completed"
            /\ res[cur][i] # "ok" => store[i][StatusColumn(cur)] = "failed"

\* C24: in every state of a classification or evaluation worker, its
\* future handled or not, the item's status for the stage is completed
\* exactly when the result fields of the stage are written: no state shows
\* the one without the other, and an update that raised has written
\* neither.
C24_ResultWithStatus ==
    /\ cw.row.classification_status = "completed"
          <=> cw.row.classification # NoClassification
    /\ ew.row.evaluation_status = "completed" <=> ew.row.evaluation # NoEvaluation
    /\ (ClassifyEnded /\ cw.res # "ok") => cw.row.classification = NoClassification
    /\ (EvaluateEnded /\ ew.res # "ok") => ew.row.evaluation = NoEvaluation

\* the classification worker has written its item and the loop has not yet
\* handled its future: the row shows the themes, the industry and the
\* status completed together
C24_Witness ==
    /\ cw.pc = "done"
    /\ cw.res = "ok"
    /\ cw.row.classification_status = "completed"
    /\ cw.row.classification.primary_theme = "Cybersecurity"
    /\ cw.row.classification.industry = "Manufacturing"
    /\ cw.row.classification.technologies = <<"TensorFlow">>

\* the extraction worker has returned
ExtractEnded == xw.pc \in {"done", "counted"}

\* C25 as stated: when process_idea_files gave content for the item and the
\* extraction worker completed it, the row of the item holds the extracted
\* text and the content-type tag together with extraction_status =
\* completed, which is what the classification run that follows selects
\* and reads.
C25_ExtractedContentStored ==
    (ExtractEnded /\ xw.res = "ok" /\ xw.result.status = "processed") =>
        /\ xw.row.extraction_status = "completed"
        /\ xw.row.extracted_files_content = xw.result.extracted_content
        /\ xw.row.content_type = xw.result.content_type

C27_SelectionFixed ==
    [][/\ (spc = "select" /\ spc' = "pool") => ideas' = SelectFor(cur, store)
       /\ (spc = "pool" /\ spc' = "pool") =>
             /\ ideas' = ideas
             /\ \A i \in Ideas \ ideas :
                   unit'[cur][i] = "none" /\ res'[cur][i] = "none"
       /\ (spc = "pool" /\ spc' # "pool") =>
             /\ stats'[cur].processed = Cardinality(ideas)
             /\ {i \in Ideas : unit[cur][i] = "done"} = ideas]_vars

\* a classification run has handled every item of its selection while
\* another item, eligible since an insert made after the selection, has no
\* unit of work
C27_Witness ==
    /\ spc = "pool"
    /\ cur = "classification"
    /\ ideas # {}
    /\ collected = ideas
    /\ \E i \in SelectFor(cur, store) \ ideas : unit[cur][i] = "none"

C29_PoolBounded ==
    \A s \in Stages :
        /\ Cardinality(Active(s)) <= batch_size
        /\ s # cur => Active(s) = {}

\* a run whose pool is full: each of its batch_size workers executes a unit
\* of work while another submitted unit waits
C29_Witness ==
    /\ spc = "pool"
    /\ Cardinality(Active(cur)) = batch_size
    /\ \E i \in ideas : unit[cur][i] = "queued"

\* C30: the step in which a worker marks its item failed changes, in the
\* row of the item, the status column of the worker's stage and nothing
\* else: the other two status columns and the output fields of the stage
\* are what they were before the step.
C30_FailedChangesStatusOnly ==
    [][/\ (xw.res # "fail" /\ xw'.res = "fail") =>
             xw'.row = [xw.row EXCEPT !.extraction_status = "failed"]
       /\ (cw.res # "fail" /\ cw'.res = "fail") =>
             cw'.row = [cw.row EXCEPT !.classification_status = "failed"]
       /\ (ew.res # "fail" /\ ew'.res = "fail") =>
             ew'.row = [ew.row EXCEPT !.evaluation_status = "failed"]]_vars

\* the evaluation worker has marked failed an item whose LLM call failed:
\* the item is still extracted and classified and has no evaluation
C30_Witness ==
    /\ ew.pc = "done"
    /\ ew.res = "fail"
    /\ ~ew.reply.success
    /\ ew.row.evaluation_status = "failed"
    /\ ew.row.extraction_status = "completed"
    /\ ew.row.classification_status = "completed"
    /\ ew.row.evaluation = NoEvaluation

\* C31 as stated: whatever the LLM answered, the classification the worker
\* has written to the row of its item lists at most three secondary
\* themes.
C31_AtMostThreeSecondary ==
    (ClassifyEnded /\ cw.res = "ok") => Len(cw.row.classification.secondary_themes) <= 3

\* C32 as stated: the failed count start_pipeline computes from the
\* statistics of a run_full_pipeline that returned is the number of
\* distinct ideas that failed at a stage of the run.  An idea counted
\* failed by a stage is not completed for it and so is not selected by the
\* stage that follows in the same run: the stages' failed counts count
\* different ideas and their sum is that number.
C32_FailedCountsDistinctIdeas ==
    (ret.kind = "returned" /\ ret.entry = "full") =>
        ServiceCompleted(status, ret.stats).failed =
            ret.stats["extraction"].failed + ret.stats["classification"].failed
              + ret.stats["evaluation"].failed

\* C33: when every external call returns or raises and the threads are
\* scheduled fairly, every call of a stage entry point or of
\* run_full_pipeline ends (returns or raises); a stage runner leaves its
\* pool only with every selected item handled and its unit of work ended,
\* and no unit of work is left waiting or running when the call has ended:
\* no item is retried forever.
C33_RunsEnd ==
    /\ (entry # "none") ~> (entry = "none" /\ ret.kind \in {"returned", "raised"})
    /\ [](entry = "none" =>
            \A s \in Stages, i \in Ideas : unit[s][i] \notin {"queued", "call"})
    /\ [][spc = "pool" /\ spc' # "pool" =>
            \A i \in ideas : unit[cur][i] = "done" /\ i \in collected]_vars

\* a full run has returned after an item of it was extracted and failed in
\* classification
C33_Witness ==
    /\ entry = "none"
    /\ ret.kind = "returned"
    /\ ret.entry = "full"
    /\ ret.stats["extraction"].succeeded >= 1
    /\ ret.stats["classification"].failed >= 1

\* C34: in every state the stage runs reach from a store without a result,
\* every item whose classification_status is completed or failed has
\* extraction_status = completed, and every item whose evaluation_status is
\* completed or failed has classification_status = completed.
C34_StatusChain ==
    \A i \in Ideas :
        /\ store[i].classification_status \in {"completed", "failed"}
              => store[i].extraction_status = "completed"
        /\ store[i].evaluation_status \in {"completed", "failed"}
              => store[i].classification_status = "completed"

\* after the runs so far one item is extracted and failed in classification
\* while another failed in extraction and has no classification status
C34_Witness ==
    /\ entry = "none"
    /\ \E i \in Ideas, j \in Ideas :
          /\ store[i].extraction_status = "completed"
          /\ store[i].classification_status = "failed"
          /\ store[j].extraction_status = "failed"
          /\ store[j].classification_status = "unset"

\* C35: no step turns a status that is completed into anything else; the
\* selection a stage runner takes holds no item that is completed for the
\* stage; and a step that changes the row of an item is a step of a run in
\* its pool on an item of its selection, changing the status column of
\* that stage alone: what a run found completed it leaves as it is.
C35_CompletedUntouched ==
    [][/\ \A i \in Ideas :
             \A c \in {"extraction_status", "classification_status", "evaluation_status"} :
                 store[i][c] = "completed" => store'[i][c] = "completed"
       /\ (spc = "select" /\ spc' = "pool") =>
             \A i \in ideas' : store[i][StatusColumn(cur)] # "completed"
       /\ \A i \in Ideas :
             store'[i] # store[i] =>
                 /\ spc = "pool"
                 /\ i \in ideas
                 /\ store'[i] = [store[i] EXCEPT ![StatusColumn(cur)] =
                                                    store'[i][StatusColumn(cur)]]]_vars

\* a classification run has handled an item of its selection while an item
\* completed by an earlier run stays outside the selection
C35_Witness ==
    /\ spc = "pool"
    /\ cur = "classification"
    /\ collected # {}
    /\ \E i \in Ideas \ ideas :
          /\ store[i].classification_status = "completed"
          /\ unit[cur][i] = "none"

\* C36: the progress callback is invoked in steps of the coordinating
\* thread only.  A step that delivers a progress event moves no unit of
\* work that is waiting or running and writes nothing to the store; a step
\* of the loop of a stage runner handles one future, that of a unit of work
\* that has ended, and delivers the one event of that iteration; and a step
\* of a worker delivers no event and leaves the status snapshot alone.
C36_CallbackByCoordinator ==
    [][/\ lastEvent' # lastEvent =>
             /\ store' = store
             /\ attempt' = attempt
             /\ \A s \in Stages, i \in Ideas :
                   unit[s][i] \in {"queued", "call"} => unit'[s][i] = unit[s][i]
       /\ (spc = "pool" /\ spc' = "pool" /\ collected' # collected) =>
             \E i \in ideas \ collected :
                 /\ collected' = collected \cup {i}
                 /\ unit[cur][i] = "done"
                 /\ unit' = unit
                 /\ lastEvent' = [stage |-> cur,
                                  progress |-> (100 * Cardinality(collected'))
                                                  \div Cardinality(ideas)]
       /\ (\E s \in Stages, i \in Ideas :
              unit[s][i] = "call" /\ (unit'[s][i] = "done" \/ attempt'[i] # attempt[i]))
             => lastEvent' = lastEvent /\ status' = status]_vars

\* the coordinating thread has delivered the event of a handled future
\* while a worker of the pool is still running its unit of work
C36_Witness ==
    /\ spc = "pool"
    /\ collected # {}
    /\ lastEvent.stage = cur
    /\ lastEvent.progress > 0
    /\ lastEvent.progress < 100
    /\ \E i \in ideas : unit[cur][i] = "call"

\* C37: the completed and failed counts of the status snapshot change only
\* in the step in which a run of the service returns successfully.  An
\* accepted start, a rejected start and a failed run leave them as they
\* were, and so does the progress callback of the service, whatever stage
\* and percentage it is called with.
C37_CountsKept ==
    /\ [][(status'.completed # status.completed \/ status'.failed # status.failed)
             => \E r \in Requests : req[r].pc = "running" /\ req'[r].result = "success"]_vars
    /\ [](\A stage \in Stages \cup {"complete", "error"}, progress \in {0, 50, 100} :
             /\ ServiceProgress(status, stage, progress).completed = status.completed
             /\ ServiceProgress(status, stage, progress).failed = status.failed)

\* a run of the service has failed and the next start was accepted: the
\* counts are those of construction
C37_Witness ==
    \E r1 \in Requests, r2 \in Requests :
        /\ req[r1].result = "failed"
        /\ req[r2].pc \in InProgress
        /\ status.running
        /\ status.completed = 0
        /\ status.failed = 0

\* C38: every configuration has is_active = true exactly when its status
\* is 'active', after any sequence of create, test, activate, deactivate,
\* update and delete operations.
C38_ActiveFlagMatchesStatus ==
    \A c \in ConfigIds :
        mc[c].exists => (mc[c].is_active <=> mc[c].status = "active")

====
